---------------------------- MODULE Spec2Model ----------------------------
(***************************************************************************)
(* Model of the Dialogflow webhook of src/main.py: the search_doctors,     *)
(* collect_patient_info, ConfirmCost and book_appointment handlers, with   *)
(* both store back ends (the Firestore client when db is set, the MOCK_*   *)
(* dictionaries otherwise), the doctor search, the cost calculation and    *)
(* the e-mail notifier.  Requests are served by                            *)
(* concurrent worker threads; every access to shared data (a dictionary    *)
(* or list operation, a Firestore call, an SMTP exchange) is one step.     *)
(***************************************************************************)
EXTENDS Integers, Sequences, FiniteSets, TLC

(***************************************************************************)
(* Bounds.                                                                 *)
(***************************************************************************)
\* Number of webhook requests served in one behaviour (each may overlap
\* with every other one).
NumRequests == 2

\* Number of times the UTC date changes while the requests are served.
MaxMidnights == 2

Requests == 1..NumRequests

(***************************************************************************)
(* Static data of the program.                                             *)
(***************************************************************************)
TahminaAkhtar == <<"Tahmina", "Akhtar">>
JohnDoe == <<"John", "Doe">>

DrMorgan == "Dr. Lucy Morgan, MRCGP"
DrCollins == "Dr. Adam Collins, MRCGP"
DrNobody == "Dr. Nobody"

\* MOCK_PATIENTS: full name -> static fields (bookings are state).
MOCK_PATIENTS ==
    TahminaAkhtar :> [name |-> "Tahmina", surname |-> "Akhtar",
                      insuranceProvider |-> "MedStar Health",
                      email |-> "tahmina.akhtar2807@gmail.com"]

\* MOCK_DOCTORS: id -> static fields and the initial availability map.
MOCK_DOCTORS ==
    "gp-001" :> [id |-> "gp-001", name |-> DrMorgan,
                 specialty |-> "General Practitioner", city |-> "New York",
                 availability |-> ("2025-09-07" :> <<"13:00", "14:00">>)]
    @@
    "gp-002" :> [id |-> "gp-002", name |-> DrCollins,
                 specialty |-> "General Practitioner", city |-> "London",
                 availability |-> ("2025-09-07" :> <<>>
                                   @@ "2025-09-08" :> <<"09:00", "10:00", "11:00",
                                                        "12:00", "13:00">>)]

DoctorIds == DOMAIN MOCK_DOCTORS
PatientIds == DOMAIN MOCK_PATIENTS

\* INSURANCE_RATES, in whole dollars (150.00 is 150).
INSURANCE_RATES ==
    "MedStar Health" :> [appointment_cost |-> 150, co_pay |-> 25]
    @@ "Blue Cross Blue Shield" :> [appointment_cost |-> 180, co_pay |-> 30]
    @@ "default" :> [appointment_cost |-> 200, co_pay |-> 50]

\* The rate lookup with the first entry of the table as fallback.
calculate_cost_first_entry_fallback(insurance_provider) ==
    LET rates == IF insurance_provider \in DOMAIN INSURANCE_RATES
                 THEN INSURANCE_RATES[insurance_provider]
                 ELSE INSURANCE_RATES["MedStar Health"]
        total_cost == rates.appointment_cost
        co_pay == rates.co_pay
    IN  [totalCost |-> total_cost,
         patientCopay |-> co_pay,
         insuranceClaim |-> total_cost - co_pay]

\* The calculation with the whole cost claimed from the insurer.
calculate_cost_claim_in_full(insurance_provider) ==
    LET rates == IF insurance_provider \in DOMAIN INSURANCE_RATES
                 THEN INSURANCE_RATES[insurance_provider]
                 ELSE INSURANCE_RATES["default"]
        total_cost == rates.appointment_cost
        co_pay == rates.co_pay
    IN  [totalCost |-> total_cost,
         patientCopay |-> co_pay,
         insuranceClaim |-> total_cost]

\* calculate_appointment_cost: dict.get with the "default" entry as fallback.
calculate_appointment_cost(insurance_provider) ==
    LET rates == IF insurance_provider \in DOMAIN INSURANCE_RATES
                 THEN INSURANCE_RATES[insurance_provider]
                 ELSE INSURANCE_RATES["default"]
        total_cost == rates.appointment_cost
        co_pay == rates.co_pay
    IN  [totalCost |-> total_cost,
         patientCopay |-> co_pay,
         insuranceClaim |-> total_cost - co_pay]

(***************************************************************************)
(* Request parameters.  A JSON scalar is an integer, a float with an       *)
(* integral value, or a string; PyStr is what an f-string makes of it.     *)
(***************************************************************************)
JInt(k) == [t |-> "int", n |-> k, s |-> ""]
JFloat(k) == [t |-> "float", n |-> k, s |-> ""]
JStr(x) == [t |-> "str", n |-> 0, s |-> x]

PyStr(x) ==
    CASE x.t = "int" -> ToString(x.n)
      [] x.t = "float" -> ToString(x.n) \o ".0"
      [] OTHER -> x.s

NoName == [present |-> FALSE, original |-> <<>>]
NameParam(words) == [present |-> TRUE, original |-> words]
NoDoctor == [present |-> FALSE, original |-> ""]
DoctorParam(n) == [present |-> TRUE, original |-> n]
NoDate == [present |-> FALSE, year |-> JStr(""), month |-> JStr(""), day |-> JStr("")]
DateParam(y, m, d) == [present |-> TRUE, year |-> y, month |-> m, day |-> d]
NoTime == [present |-> FALSE, hours |-> JStr(""), minutes |-> JStr("")]
TimeParam(h, m) == [present |-> TRUE, hours |-> h, minutes |-> m]

\* The request every other input is a variation of: all fields given, the
\* date and time components sent as zero-padded strings.
BaseParams ==
    [name |-> NameParam(TahminaAkhtar),
     dateofbirth |-> TRUE,
     insuranceprovider |-> "MedStar Health",
     policynumber |-> TRUE,
     specialty |-> "General Practitioner",
     location |-> TRUE,
     doctor_name |-> DoctorParam(DrCollins),
     appointment_date |-> DateParam(JStr("2025"), JStr("09"), JStr("08")),
     appointment_time |-> TimeParam(JStr("09"), JStr("00"))]

\* One parameter changed to another value.
ValueVariations ==
    { [BaseParams EXCEPT !.name = NameParam(JohnDoe)],
      [BaseParams EXCEPT !.doctor_name = DoctorParam(DrMorgan)],
      [BaseParams EXCEPT !.doctor_name = DoctorParam(DrNobody)],
      [BaseParams EXCEPT !.insuranceprovider = "Acme Mutual"],
      [BaseParams EXCEPT !.appointment_date = DateParam(JInt(2025), JInt(9), JInt(8))],
      [BaseParams EXCEPT !.appointment_time = TimeParam(JFloat(9), JFloat(0))],
      [BaseParams EXCEPT !.appointment_time = TimeParam(JStr("10"), JStr("00"))],
      [BaseParams EXCEPT !.appointment_time = TimeParam(JStr("15"), JStr("00"))] }

\* One parameter left out (None, or an empty value: both are falsy).
MissingVariations ==
    { [BaseParams EXCEPT !.name = NoName],
      [BaseParams EXCEPT !.dateofbirth = FALSE],
      [BaseParams EXCEPT !.insuranceprovider = ""],
      [BaseParams EXCEPT !.policynumber = FALSE],
      [BaseParams EXCEPT !.specialty = ""],
      [BaseParams EXCEPT !.doctor_name = NoDoctor],
      [BaseParams EXCEPT !.appointment_date = NoDate],
      [BaseParams EXCEPT !.appointment_time = NoTime] }

\* What a book_appointment request may carry, and a ConfirmCost request.
BookInputs == {BaseParams} \cup ValueVariations \cup MissingVariations

ConfirmInputs ==
    { BaseParams,
      [BaseParams EXCEPT !.name = NameParam(JohnDoe)],
      [BaseParams EXCEPT !.location = FALSE] }

(***************************************************************************)
(* Calendar.  A date is a day number: day n is the n-th of September 2025, *)
(* and day 0 and below are the last days of August 2025.                   *)
(***************************************************************************)
\* Number of days of August.
DaysInAugust == 31

\* date.strftime('%Y-%m-%d')
DateKey(n) ==
    IF n >= 10 THEN "2025-09-" \o ToString(n)
    ELSE IF n >= 1 THEN "2025-09-0" \o ToString(n)
    ELSE "2025-08-" \o ToString(DaysInAugust + n)

\* The dates on which the serving of the requests may start.
TodayChoices == {0, 8}

\* The dates the clock may show while the requests are served.
ClockDays == {d + k : d \in TodayChoices, k \in 0..MaxMidnights}

(***************************************************************************)
(* Parameters of a search_doctors request.                                 *)
(***************************************************************************)
\* location: left out, a plain string, or an object with a city field.
NoLocation == [kind |-> "absent", city |-> ""]
LocationText(c) == [kind |-> "str", city |-> c]
LocationObject(c) == [kind |-> "dict", city |-> c]

\* date: left out, an ISO 8601 string ("2025-09-08T00:00:00Z"), a string
\* that is no ISO 8601 date ("tomorrow"), or a JSON object {year, month, day}.
NoSearchDate == [kind |-> "absent", day |-> 0]
IsoDate(n) == [kind |-> "iso", day |-> n]
TextDate == [kind |-> "text", day |-> 0]
ObjectDate(n) == [kind |-> "object", day |-> n]

BaseSearch ==
    [specialty |-> "General Practitioner",
     location |-> LocationText("London"),
     date |-> IsoDate(8)]

SearchInputs ==
    { BaseSearch,
      [BaseSearch EXCEPT !.specialty = "general practitioner"],
      [BaseSearch EXCEPT !.specialty = ""],
      [BaseSearch EXCEPT !.location = LocationObject("London")],
      [BaseSearch EXCEPT !.location = NoLocation],
      [BaseSearch EXCEPT !.date = NoSearchDate],
      [BaseSearch EXCEPT !.date = IsoDate(7)],
      [BaseSearch EXCEPT !.date = IsoDate(-1)],
      [BaseSearch EXCEPT !.date = IsoDate(-1), !.specialty = ""],
      [BaseSearch EXCEPT !.date = TextDate],
      [BaseSearch EXCEPT !.date = ObjectDate(8)] }

\* What a collect_patient_info request may carry: the selection complete,
\* a field left out, and a date component that is no numeral.
CollectInputs ==
    { BaseParams,
      [BaseParams EXCEPT !.appointment_time = NoTime],
      [BaseParams EXCEPT !.appointment_date = DateParam(JStr("2025"), JStr("09"), JStr("eighth"))] }

(***************************************************************************)
(* Booking records and responses.                                          *)
(***************************************************************************)
NoCost == [totalCost |-> 0, patientCopay |-> 0, insuranceClaim |-> 0]

NoBooking ==
    [bookingId |-> 0, bookingType |-> "", doctorName |-> "", specialty |-> "",
     appointmentDate |-> "", appointmentTime |-> "", costBreakdown |-> NoCost,
     status |-> ""]

\* booking_details: uuid4 is modelled by the request's own number, which no
\* other request shares.
BookingDetails(id, doctor_name, specialty, appointment_date, appointment_time, cost_details) ==
    [bookingId |-> id,
     bookingType |-> "appointment",
     doctorName |-> doctor_name,
     specialty |-> specialty,
     appointmentDate |-> appointment_date,
     appointmentTime |-> appointment_time,
     costBreakdown |-> cost_details,
     status |-> "confirmed"]

\* firestore.SERVER_TIMESTAMP: a sentinel the client turns into a field
\* transform when it is the value of a field of the written document.
SERVER_TIMESTAMP == [sentinel |-> "SERVER_TIMESTAMP"]

\* booking_details of the Firestore branch: the same record with createdAt.
FirestoreBookingDetails(id, doctor_name, specialty, appointment_date, appointment_time, cost_details) ==
    [bookingId |-> id,
     bookingType |-> "appointment",
     doctorName |-> doctor_name,
     specialty |-> specialty,
     appointmentDate |-> appointment_date,
     appointmentTime |-> appointment_time,
     costBreakdown |-> cost_details,
     status |-> "confirmed",
     createdAt |-> SERVER_TIMESTAMP]

\* The handler's answer: which response text it chose, and whether that text
\* states that the confirmation e-mail has been sent.
NoResponse == [kind |-> "none", saysEmailSent |-> FALSE]
Response(kind) == [kind |-> kind, saysEmailSent |-> FALSE]
SuccessResponse == [kind |-> "Success", saysEmailSent |-> TRUE]

(***************************************************************************)
(* State.                                                                  *)
(***************************************************************************)
VARIABLES
    db,             \* TRUE: a Firestore client was created at start-up
    today,          \* the current UTC date, as a day number
    availability,   \* doctor id -> (date key -> sequence of time labels)
    bookings,       \* patient id -> sequence of booking records
    patientExists,  \* patient id -> the patient document exists
    pc,             \* request -> position in the handler
    req,            \* request -> the request body as received
    loc,            \* request -> the handler's local variables
    hist,           \* request -> what the request has done so far
    resp            \* request -> the response returned

vars == <<db, today, availability, bookings, patientExists, pc, req, loc, hist, resp>>

\* A request body: a JSON object with a fulfillment tag and the session
\* parameters (those of a booking, those of a search), or the JSON null.
Request(tag, params, search) ==
    [body |-> "object", tag |-> tag, params |-> params, search |-> search]
NullRequest == [body |-> "null", tag |-> "", params |-> BaseParams, search |-> BaseSearch]
NoRequest == Request("", BaseParams, BaseSearch)

NoLocals ==
    [appointment_date |-> "", appointment_time |-> "", doctor_name |-> "",
     patient_full_name |-> <<>>, patient_ref |-> <<>>, doctor_ref |-> "",
     booking_details |-> NoBooking,
     requested_date_obj |-> 0, i |-> 0, date_str |-> "", available_doctors |-> <<>>,
     listed |-> <<>>, j |-> 0]

NoHistory ==
    [touched |-> FALSE,       \* some store read, query or write was issued
     slotSeen |-> "unread",   \* result of the latest availability membership test
     txnPatient |-> "unread", \* what the transactional patient read found
     removed |-> {},          \* <<doctor id, date, time>> labels it removed
     appended |-> <<>>,       \* bookings it appended to a patient
     mail |-> "none",         \* none / raised / skipped / sent / failed
     queries |-> <<>>,        \* the date keys of its doctor searches, in order
     txnOps |-> <<>>,         \* the calls it made on the transaction, in order
     overlap |-> FALSE,       \* another request was in progress meanwhile
     todayAtStart |-> 0,      \* the date when the request arrived
     today |-> <<>>,          \* the date its search compared the requested one with
     availAtStart |-> <<>>,   \* the store as it was when the request arrived
     bookingsAtStart |-> <<>>]

Init ==
    /\ db \in BOOLEAN
    /\ today \in TodayChoices
    /\ availability = [d \in DoctorIds |-> MOCK_DOCTORS[d].availability]
    /\ bookings = [p \in PatientIds |-> <<>>]
    /\ patientExists = [p \in PatientIds |-> TRUE]
    /\ pc = [t \in Requests |-> "idle"]
    /\ req = [t \in Requests |-> NoRequest]
    /\ loc = [t \in Requests |-> NoLocals]
    /\ hist = [t \in Requests |-> NoHistory]
    /\ resp = [t \in Requests |-> NoResponse]

Active(t) == pc[t] \notin {"idle", "done"}

\* Requests are numbered in their order of arrival.
NextToArrive(t) == pc[t] = "idle" /\ \A u \in Requests : u < t => pc[u] # "idle"

\* The history of every request once request t has arrived: t and the
\* requests in progress at that moment overlap.
Arrived(t) ==
    LET others == {u \in Requests \ {t} : Active(u)}
    IN  [u \in Requests |->
           IF u = t
           THEN [hist[u] EXCEPT !.overlap = (others # {}),
                                !.todayAtStart = today,
                                !.availAtStart = availability,
                                !.bookingsAtStart = bookings]
           ELSE IF u \in others THEN [hist[u] EXCEPT !.overlap = TRUE]
           ELSE hist[u]]

(***************************************************************************)
(* Python helpers.                                                         *)
(***************************************************************************)
\* x in list
InList(x, list) == \E i \in 1..Len(list) : list[i] = x

\* list.remove(x): the list without the first occurrence of x (the caller
\* handles the ValueError of an absent x).
ListRemove(list, x) ==
    LET i == CHOOSE k \in 1..Len(list) : list[k] = x /\ \A j \in 1..(k - 1) : list[j] # x
    IN  [k \in 1..(Len(list) - 1) |-> IF k < i THEN list[k] ELSE list[k + 1]]

\* dict.get(date, []) on an availability map
AvailabilityGet(availability_map, date) ==
    IF date \in DOMAIN availability_map THEN availability_map[date] ELSE <<>>

\* patient_full_name.split(' ', 1)
SplitName(words) ==
    [first_name |-> IF words = <<>> THEN "" ELSE Head(words),
     last_name |-> IF Len(words) > 1 THEN Tail(words) ELSE <<>>]

\* f"{year}-{month}-{day}" and f"{hours}:{minutes}"
FormatDate(d) == PyStr(d.year) \o "-" \o PyStr(d.month) \o "-" \o PyStr(d.day)
FormatTime(tm) == PyStr(tm.hours) \o ":" \o PyStr(tm.minutes)

\* The validation with the insurance provider left out of the list.
BookFieldsPresentWithoutInsurer(p) ==
    /\ p.name.present
    /\ p.dateofbirth
    /\ p.policynumber
    /\ p.specialty # ""
    /\ p.doctor_name.present
    /\ p.appointment_date.present
    /\ p.appointment_time.present

\* all([...]) over the eight parameters book_appointment requires
BookFieldsPresent(p) ==
    /\ p.name.present
    /\ p.dateofbirth
    /\ p.insuranceprovider # ""
    /\ p.policynumber
    /\ p.specialty # ""
    /\ p.doctor_name.present
    /\ p.appointment_date.present
    /\ p.appointment_time.present

\* all([...]) over the nine parameters ConfirmCost requires
ConfirmFieldsPresent(p) == BookFieldsPresent(p) /\ p.location

Finish(t, response) ==
    /\ resp' = [resp EXCEPT ![t] = response]
    /\ pc' = [pc EXCEPT ![t] = "done"]

(***************************************************************************)
(* tag == 'book_appointment'                                               *)
(***************************************************************************)
\* Parameter extraction, validation and key construction.
BookAppointment(t, p) ==
    /\ NextToArrive(t)
    /\ req' = [req EXCEPT ![t] = Request("book_appointment", p, BaseSearch)]
    /\ hist' = Arrived(t)
    /\ IF ~BookFieldsPresent(p)
       THEN /\ Finish(t, Response("IncompleteRequest"))
            /\ UNCHANGED loc
       ELSE /\ loc' = [loc EXCEPT ![t] =
                         [NoLocals EXCEPT
                            !.appointment_date = FormatDate(p.appointment_date),
                            !.appointment_time = FormatTime(p.appointment_time),
                            !.doctor_name = p.doctor_name.original,
                            !.patient_full_name = p.name.original]]
            /\ pc' = [pc EXCEPT ![t] = IF db THEN "patient_query" ELSE "mock_check"]
            /\ UNCHANGED resp
    /\ UNCHANGED <<db, today, availability, bookings, patientExists>>

\* ---- Mock data fallback (db is None) ----------------------------------

\* patient_data = MOCK_PATIENTS.get(...); doctor_data = MOCK_DOCTORS.get('gp-002');
\* the combined test of patient, doctor and slot; booking_details on success.
MockCheck(t) ==
    /\ pc[t] = "mock_check"
    /\ LET p == req[t].params
           patient_found == loc[t].patient_full_name \in DOMAIN MOCK_PATIENTS
           doctor_id == "gp-002"
           open == InList(loc[t].appointment_time,
                          AvailabilityGet(availability[doctor_id], loc[t].appointment_date))
       IN  IF patient_found /\ open
           THEN /\ loc' = [loc EXCEPT
                             ![t].patient_ref = loc[t].patient_full_name,
                             ![t].doctor_ref = doctor_id,
                             ![t].booking_details =
                                 BookingDetails(t, loc[t].doctor_name, p.specialty,
                                                loc[t].appointment_date,
                                                loc[t].appointment_time,
                                                calculate_appointment_cost(p.insuranceprovider))]
                /\ hist' = [hist EXCEPT ![t].touched = TRUE, ![t].slotSeen = "open"]
                /\ pc' = [pc EXCEPT ![t] = "mock_remove"]
                /\ UNCHANGED resp
           ELSE /\ hist' = [hist EXCEPT ![t].touched = TRUE,
                                        ![t].slotSeen = IF patient_found THEN "absent"
                                                        ELSE "unread"]
                /\ Finish(t, Response("CouldNotComplete"))
                /\ UNCHANGED loc
    /\ UNCHANGED <<db, today, availability, bookings, patientExists, req>>

\* The removal written as "remove the label if it is there", which goes on
\* to the append either way.
MockRemoveIfPresent(t) ==
    /\ pc[t] = "mock_remove"
    /\ LET d == loc[t].doctor_ref
           date == loc[t].appointment_date
           list == availability[d][date]
       IN  IF InList(loc[t].appointment_time, list)
           THEN /\ availability' = [availability EXCEPT
                       ![d][date] = ListRemove(list, loc[t].appointment_time)]
                /\ hist' = [hist EXCEPT ![t].removed =
                               @ \cup {<<d, date, loc[t].appointment_time>>}]
           ELSE UNCHANGED <<availability, hist>>
    /\ pc' = [pc EXCEPT ![t] = "mock_append"]
    /\ UNCHANGED <<db, today, bookings, patientExists, req, loc, resp>>

\* doctor_data['availability'][appointment_date].remove(appointment_time);
\* the ValueError of a label no longer there reaches the handler's outer
\* except clause.
MockRemove(t) ==
    /\ pc[t] = "mock_remove"
    /\ LET d == loc[t].doctor_ref
           date == loc[t].appointment_date
           list == availability[d][date]
       IN  IF InList(loc[t].appointment_time, list)
           THEN /\ availability' = [availability EXCEPT
                       ![d][date] = ListRemove(list, loc[t].appointment_time)]
                /\ hist' = [hist EXCEPT ![t].removed =
                               @ \cup {<<d, date, loc[t].appointment_time>>}]
                /\ pc' = [pc EXCEPT ![t] = "mock_append"]
                /\ UNCHANGED resp
           ELSE /\ Finish(t, Response("ProcessingError"))
                /\ UNCHANGED <<availability, hist>>
    /\ UNCHANGED <<db, today, bookings, patientExists, req, loc>>

\* The append written as a read-modify-write of the list as the request
\* found it on arrival.
MockAppendToCopy(t) ==
    /\ pc[t] = "mock_append"
    /\ bookings' = [bookings EXCEPT ![loc[t].patient_ref] =
                       Append(hist[t].bookingsAtStart[loc[t].patient_ref],
                              loc[t].booking_details)]
    /\ hist' = [hist EXCEPT ![t].appended = Append(@, loc[t].booking_details)]
    /\ pc' = [pc EXCEPT ![t] = "send_email"]
    /\ UNCHANGED <<db, today, availability, patientExists, req, loc, resp>>

\* patient_data['bookings'].append(booking_details)
MockAppend(t) ==
    /\ pc[t] = "mock_append"
    /\ bookings' = [bookings EXCEPT ![loc[t].patient_ref] =
                       Append(@, loc[t].booking_details)]
    /\ hist' = [hist EXCEPT ![t].appended = Append(@, loc[t].booking_details)]
    /\ pc' = [pc EXCEPT ![t] = "send_email"]
    /\ UNCHANGED <<db, today, availability, patientExists, req, loc, resp>>

\* ---- Notification ------------------------------------------------------

\* What a call of send_email_to_patient can come to: int() of a SMTP_PORT
\* that is no numeral raises ValueError before the function's try; the
\* placeholder SMTP account makes it return without sending; the SMTP
\* exchange succeeds, or fails and the failure is caught and logged.
EmailOutcomes == {"raised", "skipped", "sent", "failed"}

\* The answer of the caller's except clause to an exception raised by
\* send_email_to_patient: the one of ConfirmCost, the "except ValueError"
\* around the transaction, the outer one of book_appointment.
EmailRaisedResponse(t) ==
    IF req[t].tag = "ConfirmCost" THEN Response("ConfirmError")
    ELSE IF db THEN Response("SlotUnavailable")
    ELSE Response("ProcessingError")

\* send_email_to_patient and the rest of its caller: when it returns (having
\* sent, skipped, or caught the failure) it returns None and the caller goes
\* on to its success text; when it raises the caller's except clause answers.
send_email_to_patient(t, outcome) ==
    /\ pc[t] = "send_email"
    /\ hist' = [hist EXCEPT ![t].mail = outcome]
    /\ Finish(t, IF outcome = "raised" THEN EmailRaisedResponse(t) ELSE SuccessResponse)
    /\ UNCHANGED <<db, today, availability, bookings, patientExists, req, loc>>

SendEmail(t) == \E outcome \in EmailOutcomes : send_email_to_patient(t, outcome)

\* ---- Firestore (db is set) ---------------------------------------------

\* patients.where(name == first_name).where(surname == last_name).limit(1)
PatientQuery(t) ==
    /\ pc[t] = "patient_query"
    /\ LET parts == SplitName(loc[t].patient_full_name)
           found == {p \in PatientIds :
                        /\ patientExists[p]
                        /\ MOCK_PATIENTS[p].name = parts.first_name
                        /\ <<MOCK_PATIENTS[p].surname>> = parts.last_name}
       IN  IF found = {}
           THEN /\ Finish(t, Response("PatientNotFound"))
                /\ UNCHANGED loc
           ELSE /\ \E p \in found : loc' = [loc EXCEPT ![t].patient_ref = p]
                /\ pc' = [pc EXCEPT ![t] = "doctor_query"]
                /\ UNCHANGED resp
    /\ hist' = [hist EXCEPT ![t].touched = TRUE]
    /\ UNCHANGED <<db, today, availability, bookings, patientExists, req>>

\* doctors.where(name == doctor_name).limit(1), then the membership test on
\* the queried document's availability and the construction of booking_details.
DoctorQuery(t) ==
    /\ pc[t] = "doctor_query"
    /\ LET p == req[t].params
           found == {d \in DoctorIds : MOCK_DOCTORS[d].name = loc[t].doctor_name}
       IN  IF found = {}
           THEN /\ Finish(t, Response("DoctorNotFound"))
                /\ UNCHANGED <<loc, hist>>
           ELSE \E d \in found :
                  LET availability_list ==
                          AvailabilityGet(availability[d], loc[t].appointment_date)
                  IN  IF InList(loc[t].appointment_time, availability_list)
                      THEN /\ loc' = [loc EXCEPT
                                        ![t].doctor_ref = d,
                                        ![t].booking_details =
                                            FirestoreBookingDetails(
                                                t, loc[t].doctor_name, p.specialty,
                                                loc[t].appointment_date,
                                                loc[t].appointment_time,
                                                calculate_appointment_cost(p.insuranceprovider))]
                           /\ hist' = [hist EXCEPT ![t].slotSeen = "open"]
                           /\ pc' = [pc EXCEPT ![t] = "txn_patient"]
                           /\ UNCHANGED resp
                      ELSE /\ Finish(t, Response("SlotUnavailable"))
                           /\ hist' = [hist EXCEPT ![t].slotSeen = "absent"]
                           /\ UNCHANGED loc
    /\ UNCHANGED <<db, today, availability, bookings, patientExists, req>>

\* The Firestore client refuses a transactional read once the transaction
\* holds a write (ReadAfterWriteError).
ReadAfterWrite(write_pbs) == Len(write_pbs) > 0

\* The client's encoding of a written value: a sentinel is accepted as the
\* value of a field of the document itself, and nowhere inside an array
\* (TypeError, "Cannot convert to a Firestore Value").  createdAt is the
\* one field of a booking that can hold a sentinel.
CannotEncode(array) ==
    \E i \in 1..Len(array) :
        "createdAt" \in DOMAIN array[i] /\ array[i].createdAt = SERVER_TIMESTAMP

\* update_patient_and_doctor_in_transaction and the try around its call:
\* the transactional read of the patient, the update of its bookings, the
\* transactional read of the doctor, the membership test, the update of
\* the availability and the commit.  A missing patient document has
\* to_dict() None, and None.get raises.  The bookings array handed to the
\* first update ends with booking_details, whose createdAt is the sentinel:
\* the client raises while encoding it, before anything is staged.  Were
\* the update staged, the read of the doctor would come after a write and
\* the client would raise there.  Each time the decorator rolls back and the
\* handler's "except Exception" answers.
TxnPatient(t) ==
    /\ pc[t] = "txn_patient"
    /\ LET ref == loc[t].patient_ref
           d == loc[t].doctor_ref
           date == loc[t].appointment_date
           current_bookings == Append(bookings[ref], loc[t].booking_details)
           write_pbs == <<[ref |-> "patient", bookings |-> current_bookings]>>
           availability_list_trans == AvailabilityGet(availability[d], date)
       IN  IF ~patientExists[ref]
           THEN /\ Finish(t, Response("TransactionError"))
                /\ hist' = [hist EXCEPT ![t].txnPatient = "absent",
                                        ![t].txnOps = <<"get patient">>]
                /\ UNCHANGED <<availability, bookings, loc>>
           ELSE IF CannotEncode(current_bookings)
           THEN /\ Finish(t, Response("TransactionError"))
                /\ hist' = [hist EXCEPT ![t].txnPatient = "present",
                                        ![t].txnOps = <<"get patient", "update patient">>]
                /\ UNCHANGED <<availability, bookings, loc>>
           ELSE IF ReadAfterWrite(write_pbs)
           THEN /\ Finish(t, Response("TransactionError"))
                /\ hist' = [hist EXCEPT ![t].txnPatient = "present",
                                        ![t].txnOps = <<"get patient", "update patient",
                                                        "get doctor">>]
                /\ UNCHANGED <<availability, bookings, loc>>
           ELSE IF InList(loc[t].appointment_time, availability_list_trans)
           THEN /\ availability' = [availability EXCEPT ![d][date] =
                       ListRemove(availability_list_trans, loc[t].appointment_time)]
                /\ bookings' = [bookings EXCEPT ![ref] = current_bookings]
                /\ hist' = [hist EXCEPT
                       ![t].txnPatient = "present",
                       ![t].txnOps = <<"get patient", "update patient",
                                       "get doctor", "update doctor">>,
                       ![t].slotSeen = "open",
                       ![t].removed = @ \cup {<<d, date, loc[t].appointment_time>>},
                       ![t].appended = Append(@, loc[t].booking_details)]
                /\ pc' = [pc EXCEPT ![t] = "send_email"]
                /\ UNCHANGED <<loc, resp>>
           ELSE /\ Finish(t, Response("SlotUnavailable"))
                /\ hist' = [hist EXCEPT ![t].txnPatient = "present",
                                        ![t].txnOps = <<"get patient", "update patient",
                                                        "get doctor">>,
                                        ![t].slotSeen = "absent"]
                /\ UNCHANGED <<availability, bookings, loc>>
    /\ UNCHANGED <<db, today, patientExists, req>>

\* The patient document is deleted by another client of the database.
DeletePatient(p) ==
    /\ db
    /\ patientExists[p]
    /\ patientExists' = [patientExists EXCEPT ![p] = FALSE]
    /\ UNCHANGED <<db, today, availability, bookings, pc, req, loc, hist, resp>>

(***************************************************************************)
(* tag == 'ConfirmCost'                                                    *)
(***************************************************************************)
\* Validation, cost, the patient looked up in MOCK_PATIENTS (whatever db
\* is) and booking_details; the e-mail follows.
ConfirmCost(t, p) ==
    /\ NextToArrive(t)
    /\ req' = [req EXCEPT ![t] = Request("ConfirmCost", p, BaseSearch)]
    /\ IF ~ConfirmFieldsPresent(p)
       THEN /\ Finish(t, Response("IncompleteRequest"))
            /\ hist' = Arrived(t)
            /\ UNCHANGED loc
       ELSE IF p.name.original \notin DOMAIN MOCK_PATIENTS
       THEN /\ Finish(t, Response("PatientNotFound"))
            /\ hist' = [Arrived(t) EXCEPT ![t].touched = TRUE]
            /\ UNCHANGED loc
       ELSE /\ loc' = [loc EXCEPT ![t] =
                         [NoLocals EXCEPT
                            !.appointment_date = FormatDate(p.appointment_date),
                            !.appointment_time = FormatTime(p.appointment_time),
                            !.doctor_name = p.doctor_name.original,
                            !.patient_full_name = p.name.original,
                            !.patient_ref = p.name.original,
                            !.booking_details =
                                BookingDetails(t, p.doctor_name.original, p.specialty,
                                               FormatDate(p.appointment_date),
                                               FormatTime(p.appointment_time),
                                               calculate_appointment_cost(p.insuranceprovider))]]
            /\ hist' = [Arrived(t) EXCEPT ![t].touched = TRUE]
            /\ pc' = [pc EXCEPT ![t] = "send_email"]
            /\ UNCHANGED resp
    /\ UNCHANGED <<db, today, availability, bookings, patientExists>>

(***************************************************************************)
(* tag == 'search_doctors'                                                 *)
(***************************************************************************)
\* range(1, 8): the days after the requested one that the search tries.
SearchWindow == 7

\* The order in which the doctors are visited: MOCK_DOCTORS.values(), and
\* the document-id order of a Firestore query.
DoctorOrder == <<"gp-001", "gp-002">>

\* find_available_doctors: the doctors whose specialty and city are the
\* given strings and whose list for the date key is present and non-empty,
\* each with the times of that list.
find_available_doctors(specialty, location, date_str) ==
    LET Matches(d) ==
            /\ MOCK_DOCTORS[d].specialty = specialty
            /\ MOCK_DOCTORS[d].city = location
            /\ date_str \in DOMAIN availability[d]
            /\ Len(availability[d][date_str]) > 0
        ids == SelectSeq(DoctorOrder, Matches)
    IN  [k \in 1..Len(ids) |-> [id |-> ids[k], times |-> availability[ids[k]][date_str]]]

\* The past-date test one day late: yesterday passes.
DateInPastLenient(requested_date_obj, now) == requested_date_obj + 1 < now

\* requested_date_obj < today
DateInPast(requested_date_obj, now) == requested_date_obj < now

\* Parameter extraction, the ISO 8601 conversion of the date (only its
\* ValueError is caught; a date that is no string has no replace method and
\* the AttributeError leaves the view function), the clock's date taken
\* for an absent one (line 279), and the test for specialty and location.
SearchDoctors(t, s) ==
    /\ NextToArrive(t)
    /\ req' = [req EXCEPT ![t] = Request("search_doctors", BaseParams, s)]
    /\ hist' = Arrived(t)
    /\ LET location == s.location.city
           requested_date_obj == IF s.date.kind = "absent" THEN today ELSE s.date.day
       IN  IF s.date.kind = "object"
           THEN Finish(t, Response("UncaughtFault")) /\ UNCHANGED loc
           ELSE IF s.date.kind = "text"
           THEN Finish(t, Response("DateNotUnderstood")) /\ UNCHANGED loc
           ELSE IF s.specialty = "" \/ location = ""
           THEN Finish(t, Response("SearchIncomplete")) /\ UNCHANGED loc
           ELSE /\ loc' = [loc EXCEPT ![t] =
                             [NoLocals EXCEPT
                                !.requested_date_obj = requested_date_obj,
                                !.date_str = DateKey(requested_date_obj)]]
                /\ pc' = [pc EXCEPT ![t] = "search_today"]
                /\ UNCHANGED resp
    /\ UNCHANGED <<db, today, availability, bookings, patientExists>>

\* today = datetime.now(pytz.utc).date() and the comparison of the requested
\* date with it.
SearchToday(t) ==
    /\ pc[t] = "search_today"
    /\ hist' = [hist EXCEPT ![t].today = <<today>>]
    /\ IF DateInPast(loc[t].requested_date_obj, today)
       THEN Finish(t, Response("PastDateRequested"))
       ELSE pc' = [pc EXCEPT ![t] = "search"] /\ UNCHANGED resp
    /\ UNCHANGED <<db, today, availability, bookings, patientExists, req, loc>>

\* Midnight UTC passes: the clock shows the next date.
Midnight ==
    /\ \E d \in TodayChoices : d <= today /\ today < d + MaxMidnights
    /\ today' = today + 1
    /\ UNCHANGED <<db, availability, bookings, patientExists, pc, req, loc, hist, resp>>

\* A search that holds what it offers: the first time of every doctor it
\* lists is taken off the doctor's list.
SearchRenderAndHold(t) ==
    /\ pc[t] = "search_render"
    /\ LET date_str == loc[t].date_str
           found == loc[t].available_doctors
           Times(k) == IF db THEN found[k].times ELSE availability[found[k].id][date_str]
           held == {found[k].id : k \in 1..Len(found)}
       IN  /\ loc' = [loc EXCEPT ![t].listed =
                         [k \in 1..Len(found) |-> [id |-> found[k].id, times |-> Times(k)]]]
           /\ availability' = [d \in DoctorIds |->
                                 IF d \in held /\ Len(availability[d][date_str]) > 0
                                 THEN [availability[d] EXCEPT ![date_str] = Tail(@)]
                                 ELSE availability[d]]
           /\ Finish(t, Response(IF loc[t].i = 0 THEN "Doctors" ELSE "NextDate"))
    /\ UNCHANGED <<db, today, bookings, patientExists, req, hist>>

\* One call of find_available_doctors: for the requested date first, then
\* for each of the following days until one has doctors or the window ends.
\* The doctors found are kept for the response text, which starts with the
\* first doctor's name.
SearchFind(t) ==
    /\ pc[t] = "search"
    /\ LET s == req[t].search
           i == loc[t].i
           next_date_str == DateKey(loc[t].requested_date_obj + i)
           available_doctors ==
               find_available_doctors(s.specialty, s.location.city, next_date_str)
       IN  /\ hist' = [hist EXCEPT ![t].touched = TRUE,
                                   ![t].queries = Append(@, next_date_str)]
           /\ IF Len(available_doctors) > 0
              THEN /\ loc' = [loc EXCEPT
                                ![t].date_str = next_date_str,
                                ![t].available_doctors = available_doctors,
                                ![t].listed = <<[id |-> available_doctors[1].id,
                                                 times |-> <<>>]>>,
                                ![t].j = 0]
                   /\ pc' = [pc EXCEPT ![t] = "search_render"]
                   /\ UNCHANGED resp
              ELSE IF i = SearchWindow
              THEN /\ Finish(t, Response("NoDoctors"))
                   /\ UNCHANGED loc
              ELSE /\ loc' = [loc EXCEPT ![t].i = i + 1]
                   /\ UNCHANGED <<pc, resp>>
    /\ UNCHANGED <<db, today, availability, bookings, patientExists, req>>

\* The response text: for each doctor found its name and a line for every
\* time of "for time in doc['availability'][date_str]".  With Firestore doc
\* is the to_dict() copy of the query and the text is built from it.  With
\* the mock data doc is the doctor's entry of MOCK_DOCTORS itself and the
\* loop runs over the shared list: each step is one advance of the list
\* iterator, which yields the element at its position j when the list is
\* that long and ends the loop otherwise.
SearchRender(t) ==
    /\ pc[t] = "search_render"
    /\ LET date_str == loc[t].date_str
           found == loc[t].available_doctors
           k == Len(loc[t].listed)
           j == loc[t].j
           list == availability[found[k].id][date_str]
       IN  IF db
           THEN /\ loc' = [loc EXCEPT ![t].listed =
                             [n \in 1..Len(found) |->
                                 [id |-> found[n].id, times |-> found[n].times]]]
                /\ Finish(t, Response(IF loc[t].i = 0 THEN "Doctors" ELSE "NextDate"))
           ELSE IF j < Len(list)
           THEN /\ loc' = [loc EXCEPT ![t].listed[k].times = Append(@, list[j + 1]),
                                      ![t].j = j + 1]
                /\ UNCHANGED <<pc, resp>>
           ELSE IF k < Len(found)
           THEN /\ loc' = [loc EXCEPT
                             ![t].listed = Append(@, [id |-> found[k + 1].id,
                                                      times |-> <<>>]),
                             ![t].j = 0]
                /\ UNCHANGED <<pc, resp>>
           ELSE /\ Finish(t, Response(IF loc[t].i = 0 THEN "Doctors" ELSE "NextDate"))
                /\ UNCHANGED loc
    /\ UNCHANGED <<db, today, availability, bookings, patientExists, req, hist>>

(***************************************************************************)
(* tag == 'collect_patient_info', no tag, and a body that is no object     *)
(***************************************************************************)
\* The strings int() converts.
Numerals == {"2025", "09", "08", "00", "10", "15"}

\* int(x) raises ValueError
IntFails(x) == x.t = "str" /\ x.s \notin Numerals

\* The selection handed on as a custom payload; the text is built with
\* int() of the date and time components, inside the handler's try.
CollectPatientInfo(t, p) ==
    /\ NextToArrive(t)
    /\ req' = [req EXCEPT ![t] = Request("collect_patient_info", p, BaseSearch)]
    /\ hist' = Arrived(t)
    /\ LET d == p.appointment_date
           tm == p.appointment_time
       IN  IF ~(p.doctor_name.present /\ tm.present /\ d.present)
           THEN Finish(t, Response("LostDetails"))
           ELSE IF \E x \in {d.year, d.month, d.day, tm.hours, tm.minutes} : IntFails(x)
           THEN Finish(t, Response("NextStepError"))
           ELSE Finish(t, Response("CollectPayload"))
    /\ UNCHANGED <<db, today, availability, bookings, patientExists, loc>>

\* A request whose fulfillmentInfo has no tag (or one no branch handles):
\* the text response_text was initialised with.
UnknownTag(t) ==
    /\ NextToArrive(t)
    /\ req' = [req EXCEPT ![t] = Request("", BaseParams, BaseSearch)]
    /\ hist' = Arrived(t)
    /\ Finish(t, Response("DefaultError"))
    /\ UNCHANGED <<db, today, availability, bookings, patientExists, loc>>

\* A body that is the JSON null: get_json() returns None and
\* request_data.get raises outside every try.
NullBody(t) ==
    /\ NextToArrive(t)
    /\ req' = [req EXCEPT ![t] = NullRequest]
    /\ hist' = Arrived(t)
    /\ Finish(t, Response("UncaughtFault"))
    /\ UNCHANGED <<db, today, availability, bookings, patientExists, loc>>

(***************************************************************************)
(* The system.                                                             *)
(***************************************************************************)
Next ==
    \/ \E t \in Requests, p \in BookInputs : BookAppointment(t, p)
    \/ \E t \in Requests, p \in ConfirmInputs : ConfirmCost(t, p)
    \/ \E t \in Requests, s \in SearchInputs : SearchDoctors(t, s)
    \/ \E t \in Requests : SearchToday(t)
    \/ \E t \in Requests : SearchFind(t)
    \/ \E t \in Requests : SearchRender(t)
    \/ \E t \in Requests, p \in CollectInputs : CollectPatientInfo(t, p)
    \/ \E t \in Requests : UnknownTag(t)
    \/ \E t \in Requests : NullBody(t)
    \/ \E t \in Requests : MockCheck(t)
    \/ \E t \in Requests : MockRemove(t)
    \/ \E t \in Requests : MockAppend(t)
    \/ \E t \in Requests : PatientQuery(t)
    \/ \E t \in Requests : DoctorQuery(t)
    \/ \E t \in Requests : TxnPatient(t)
    \/ \E t \in Requests : SendEmail(t)
    \/ \E p \in PatientIds : DeletePatient(p)
    \/ Midnight

Spec == Init /\ [][Next]_vars

TypeOK ==
    /\ db \in BOOLEAN
    /\ today \in ClockDays
    /\ \A t \in Requests : pc[t] \in {"idle", "search_today", "search", "search_render", "mock_check", "mock_remove", "mock_append",
                                        "patient_query", "doctor_query", "txn_patient",
                                        "send_email", "done"}

(***************************************************************************)
(* Vocabulary of the properties.                                           *)
(***************************************************************************)
IsBooking(t) == pc[t] # "idle" /\ req[t].tag = "book_appointment"
Done(t) == pc[t] = "done"

\* The reservation of request t is committed: label removed, booking appended.
Committed(t) == hist[t].removed # {} /\ Len(hist[t].appended) > 0

\* The request wrote nothing to the store.
WroteNothing(t) == hist[t].removed = {} /\ hist[t].appended = <<>>

\* The doctor, date key and time label a request stands for: the store's
\* keys are zero-padded ("2025-09-08", "09:00") whatever JSON type carried
\* the components.
Pad2(x) == IF x.t = "str" THEN x.s ELSE IF x.n < 10 THEN "0" \o ToString(x.n) ELSE ToString(x.n)
Plain(x) == IF x.t = "str" THEN x.s ELSE ToString(x.n)
MeantDate(p) ==
    Plain(p.appointment_date.year) \o "-" \o Pad2(p.appointment_date.month)
        \o "-" \o Pad2(p.appointment_date.day)
MeantTime(p) == Pad2(p.appointment_time.hours) \o ":" \o Pad2(p.appointment_time.minutes)
MeantDoctors(p) == {d \in DoctorIds : MOCK_DOCTORS[d].name = p.doctor_name.original}

\* Every field the orchestrator requires is given.
RequiredFieldsGiven(p) ==
    /\ p.doctor_name.present /\ p.appointment_date.present /\ p.appointment_time.present
    /\ p.name.present /\ p.dateofbirth /\ p.policynumber
    /\ p.insuranceprovider # ""

\* The slot a complete request stands for is open in the availability map av.
MeantSlotOpen(p, av) ==
    \E d \in MeantDoctors(p) : InList(MeantTime(p), AvailabilityGet(av[d], MeantDate(p)))

SameSlot(p, q) ==
    /\ p.doctor_name = q.doctor_name
    /\ MeantDate(p) = MeantDate(q)
    /\ MeantTime(p) = MeantTime(q)

\* All bookings held by patients, each with its place.
BookingPlaces == {<<p, i>> \in PatientIds \X (1..NumRequests) : i <= Len(bookings[p])}
BookingAt(pl) == bookings[pl[1]][pl[2]]
SlotOf(b) == <<b.doctorName, b.appointmentDate, b.appointmentTime>>

(***************************************************************************)
(* Properties.                                                             *)
(***************************************************************************)

\* C1: for every doctor/date/time triple at most one request removes the
\* time label, and at most one booking for the triple exists across all
\* patients' booking sequences, in every reachable state.
C1_AtMostOneWinner ==
    /\ \A t, u \in Requests : t # u => hist[t].removed \cap hist[u].removed = {}
    /\ \A a, b \in BookingPlaces : SlotOf(BookingAt(a)) = SlotOf(BookingAt(b)) => a = b

\* Two requests saw the same label open; one removed it, the other did not.
C1_Witness ==
    \E t, u \in Requests :
        /\ t # u /\ Done(t) /\ Done(u)
        /\ hist[t].slotSeen = "open" /\ hist[u].slotSeen = "open"
        /\ loc[t].appointment_date = loc[u].appointment_date
        /\ loc[t].appointment_time = loc[u].appointment_time
        /\ Committed(t) /\ WroteNothing(u)
        /\ Cardinality(BookingPlaces) = 1

\* C2: when two booking requests race on the same doctor, date and time,
\* open at the start (both are in progress together and both find the label
\* open), then after both complete exactly one has returned a successful
\* booking and the other SlotUnavailable or ReservationConflict.
C2_RaceOutcomes ==
    \A t, u \in Requests :
        ( /\ t # u /\ IsBooking(t) /\ IsBooking(u) /\ Done(t) /\ Done(u)
          /\ hist[t].overlap /\ hist[u].overlap
          /\ hist[t].slotSeen = "open" /\ hist[u].slotSeen = "open"
          /\ BookFieldsPresent(req[t].params) /\ BookFieldsPresent(req[u].params)
          /\ req[t].params.name.original \in DOMAIN MOCK_PATIENTS
          /\ req[u].params.name.original \in DOMAIN MOCK_PATIENTS
          /\ \A p \in PatientIds : patientExists[p]
          /\ SameSlot(req[t].params, req[u].params)
          /\ MeantSlotOpen(req[t].params, [d \in DoctorIds |-> MOCK_DOCTORS[d].availability]) )
        => \/ resp[t].kind = "Success"
              /\ resp[u].kind \in {"SlotUnavailable", "ReservationConflict"}
           \/ resp[u].kind = "Success"
              /\ resp[t].kind \in {"SlotUnavailable", "ReservationConflict"}

\* C3: a reservation whose time is not in the doctor's freshly read
\* availability fails with SlotUnavailable and commits nothing (stated for
\* the requests whose date and time keys are the store's own labels).
C3_UnavailableSlot ==
    \A t \in Requests :
        ( /\ IsBooking(t) /\ Done(t) /\ hist[t].slotSeen = "absent"
          /\ loc[t].appointment_date = MeantDate(req[t].params)
          /\ loc[t].appointment_time = MeantTime(req[t].params) )
        => resp[t].kind = "SlotUnavailable" /\ WroteNothing(t)

\* C4: a complete request for an existing patient and an open slot, served
\* with no other request in progress, succeeds with a confirmed booking that
\* carries the provider's cost breakdown, and leaves the doctor's list for
\* the date equal to the previous list with the label removed.
C4_UncontendedBookingSucceeds ==
    \A t \in Requests :
        ( /\ IsBooking(t) /\ Done(t) /\ ~hist[t].overlap
          /\ \A u \in Requests : u > t => pc[u] = "idle"
          /\ BookFieldsPresent(req[t].params)
          /\ req[t].params.name.original \in DOMAIN MOCK_PATIENTS
          /\ patientExists[req[t].params.name.original]
          /\ MeantSlotOpen(req[t].params, hist[t].availAtStart) )
        => LET p == req[t].params
               who == p.name.original
           IN  /\ resp[t].kind = "Success"
               /\ Len(bookings[who]) = Len(hist[t].bookingsAtStart[who]) + 1
               /\ bookings[who][Len(bookings[who])].status = "confirmed"
               /\ bookings[who][Len(bookings[who])].costBreakdown
                      = calculate_appointment_cost(p.insuranceprovider)
               /\ \E d \in MeantDoctors(p) :
                      availability[d][MeantDate(p)]
                         = ListRemove(hist[t].availAtStart[d][MeantDate(p)], MeantTime(p))

\* C6: if the patient record is absent when re-read inside the atomic unit,
\* the reservation fails with PatientNotFound and writes nothing.
C6_PatientGoneInTransaction ==
    \A t \in Requests :
        (IsBooking(t) /\ Done(t) /\ hist[t].txnPatient = "absent")
        => resp[t].kind = "PatientNotFound" /\ WroteNothing(t)

\* C7: a booking request notifies only after its reservation is committed,
\* and whatever the notifier does, the slot stays removed, the booking stays
\* in the patient's sequence and the request returns a successful result.
C7_NotificationAfterCommit ==
    \A t \in Requests :
        IsBooking(t) =>
            /\ hist[t].mail # "none" => Committed(t)
            /\ Committed(t) =>
                  /\ \A s \in hist[t].removed :
                         ~InList(s[3], AvailabilityGet(availability[s[1]], s[2]))
                  /\ \E i \in 1..Len(bookings[loc[t].patient_ref]) :
                         bookings[loc[t].patient_ref][i] = loc[t].booking_details
                  /\ Done(t) => resp[t].kind = "Success"

\* A committed reservation whose notification failed has returned.
C7_Witness ==
    \E t \in Requests :
        IsBooking(t) /\ Committed(t) /\ hist[t].mail = "failed" /\ Done(t)

\* C8: every confirmation sent is preceded, in the same request, by a
\* committed reservation that removed the slot and appended the same booking.
C8_NotifierGetsFinalizedBooking ==
    \A t \in Requests :
        hist[t].mail = "sent" =>
            /\ Committed(t)
            /\ hist[t].appended = <<loc[t].booking_details>>

\* C9: a booking request that lacks a required field fails with
\* IncompleteRequest without any store access and without a notification.
C9_IncompleteRequest ==
    \A t \in Requests :
        (IsBooking(t) /\ ~RequiredFieldsGiven(req[t].params))
        => /\ Done(t)
           /\ resp[t].kind = "IncompleteRequest"
           /\ ~hist[t].touched
           /\ WroteNothing(t)
           /\ hist[t].mail = "none"

\* A request without insurance provider was answered IncompleteRequest.
C9_Witness ==
    \E t \in Requests :
        /\ IsBooking(t) /\ Done(t)
        /\ req[t].params.insuranceprovider = ""
        /\ resp[t].kind = "IncompleteRequest"

\* C10: the successful result says the confirmation was sent exactly when
\* the notifier's send succeeded (stated for the bookings made with the
\* doctor the request names).
C10_NotificationFlag ==
    \A t \in Requests :
        ( /\ IsBooking(t) /\ Done(t) /\ resp[t].kind = "Success"
          /\ MeantDoctors(req[t].params) = {loc[t].doctor_ref} )
        => (resp[t].saysEmailSent <=> hist[t].mail = "sent")


(***************************************************************************)
(* Vocabulary of the search properties.                                    *)
(***************************************************************************)
IsSearch(t) == pc[t] # "idle" /\ req[t].body = "object" /\ req[t].tag = "search_doctors"

\* The search names a specialty and a location.
SearchFieldsGiven(s) == s.specialty # "" /\ s.location.city # ""

\* The request carries a date that reads as a calendar day before the day
\* on which it arrived.
AsksPastDate(t) ==
    /\ IsSearch(t)
    /\ req[t].search.date.kind = "iso"
    /\ req[t].search.date.day < hist[t].todayAtStart

\* C11: every request, whatever its tag, parameters and body, is answered
\* by the handler: no exception leaves the view function.
C11_EveryRequestAnswered == \A t \in Requests : Done(t) => resp[t].kind # "UncaughtFault"

\* C12: a search for a date before today issues no doctor query and returns
\* no search result: it gets no further than the comparison with today's
\* date, and when it names a specialty and a location it is answered with
\* the past-date text.
C12_PastDateRejected ==
    \A t \in Requests :
        AsksPastDate(t) =>
            /\ pc[t] \in {"search_today", "done"}
            /\ hist[t].queries = <<>>
            /\ ~hist[t].touched
            /\ Done(t) =>
                  /\ resp[t].kind \notin {"Doctors", "NextDate", "NoDoctors"}
                  /\ SearchFieldsGiven(req[t].search) => resp[t].kind = "PastDateRequested"

\* A search for yesterday was answered with the past-date text while another
\* search had its doctors listed.
C12_Witness ==
    \E t, u \in Requests :
        /\ AsksPastDate(t) /\ resp[t].kind = "PastDateRequested"
        /\ req[t].search.date.day + 1 = hist[t].todayAtStart
        /\ IsSearch(u) /\ resp[u].kind = "Doctors"


\* The search has results to show for: it went as far as the doctor queries
\* and has ended.
SearchEnded(t) == IsSearch(t) /\ Done(t) /\ resp[t].kind \in {"Doctors", "NextDate", "NoDoctors"}

\* Labels are only ever removed, so a store equal to the one the request
\* found on arrival has not changed while the request was served.
StoreUnchangedSince(t) == availability = hist[t].availAtStart

\* The days the calendar of the model covers.
Calendar ==
    LET last == CHOOSE d \in ClockDays : \A e \in ClockDays : e <= d
    IN  -1..(last + SearchWindow)

\* The days from the requested one on with a doctor of exactly the given
\* specialty and city open.
OpenDaysFrom(t) ==
    {n \in Calendar :
        /\ n >= loc[t].requested_date_obj
        /\ Len(find_available_doctors(req[t].search.specialty,
                                      req[t].search.location.city, DateKey(n))) > 0}

Earliest(days) == CHOOSE n \in days : \A m \in days : n <= m

\* C13: when a doctor of the specialty and city is open on the requested
\* date or on any later one, however far away, the search returns the
\* doctors of the earliest such date, tagged with that date, and not the
\* not-found answer.
C13_EarliestLaterDate ==
    \A t \in Requests :
        (SearchEnded(t) /\ StoreUnchangedSince(t) /\ OpenDaysFrom(t) # {}) =>
            /\ resp[t].kind # "NoDoctors"
            /\ loc[t].date_str = DateKey(Earliest(OpenDaysFrom(t)))
            /\ loc[t].listed =
                   find_available_doctors(req[t].search.specialty,
                                          req[t].search.location.city, loc[t].date_str)

\* str.lower() on the specialties and cities in use.
LowerCase ==
    "General Practitioner" :> "general practitioner"
    @@ "London" :> "london"
    @@ "New York" :> "new york"

Lower(x) == IF x \in DOMAIN LowerCase THEN LowerCase[x] ELSE x

\* The doctors, in store order, whose specialty and city equal the given
\* ones ignoring letter case and who have a time label on the date.
MatchIgnoringCase(specialty, location, date_str) ==
    LET Matches(d) ==
            /\ Lower(MOCK_DOCTORS[d].specialty) = Lower(specialty)
            /\ Lower(MOCK_DOCTORS[d].city) = Lower(location)
            /\ date_str \in DOMAIN availability[d]
            /\ Len(availability[d][date_str]) > 0
    IN  SelectSeq(DoctorOrder, Matches)

\* What the search for the requested date itself returned, for a search
\* that has been answered: the doctors listed when the answer is for the
\* requested date, none when the search went on to the following days.
ExactDateResult(t) ==
    IF resp[t].kind = "Doctors"
    THEN [k \in 1..Len(loc[t].listed) |-> loc[t].listed[k].id]
    ELSE <<>>

\* C14: the search for the requested date returns exactly the doctors whose
\* specialty and city equal the requested ones ignoring letter case and who
\* have a time label on that date, and the empty sequence when there is none
\* (stated for searches that have been answered, with the store as they
\* found it).
C14_ExactDateSearch ==
    \A t \in Requests :
        (SearchEnded(t) /\ StoreUnchangedSince(t)) =>
            ExactDateResult(t) =
                   MatchIgnoringCase(req[t].search.specialty, req[t].search.location.city,
                                     DateKey(loc[t].requested_date_obj))


\* The step is one of request t's search.
SearchStep(t) ==
    \/ /\ pc[t] \in {"search_today", "search", "search_render"}
       /\ (pc'[t] # pc[t] \/ loc'[t] # loc[t])
    \/ pc[t] = "idle" /\ pc'[t] # "idle" /\ req'[t].tag = "search_doctors"

\* What a search returned: the kind of answer, the date, and the doctors
\* with the times listed for each.
SearchResult(t) == <<resp[t].kind, loc[t].date_str, loc[t].listed>>

\* C15: a step of a search changes neither a doctor's availability nor a
\* patient's bookings, and two searches with the same arguments for the
\* same date, served with the store in the same state throughout, return
\* the same doctors in the same order.
C15_SearchReadOnlyIdempotent ==
    /\ [][\A t \in Requests :
             SearchStep(t) => UNCHANGED <<availability, bookings, patientExists>>]_vars
    /\ [](\A t, u \in Requests :
             (/\ SearchEnded(t) /\ SearchEnded(u)
              /\ req[t].search = req[u].search
              /\ loc[t].requested_date_obj = loc[u].requested_date_obj
              /\ StoreUnchangedSince(t) /\ StoreUnchangedSince(u))
             => SearchResult(t) = SearchResult(u))

\* Two searches with the same arguments were served at the same time, both
\* made their queries, and both listed the same doctor.
C15_Witness ==
    \E t, u \in Requests :
        /\ t # u
        /\ SearchEnded(t) /\ SearchEnded(u)
        /\ req[t].search = req[u].search
        /\ hist[t].overlap /\ hist[u].overlap
        /\ Len(loc[t].listed) > 0
        /\ SearchResult(t) = SearchResult(u)


(***************************************************************************)
(* Vocabulary of the cost properties.                                      *)
(***************************************************************************)
\* Provider names the calculation is tried on: the keys of the table, names
\* that are no key, a key in another letter case, and the empty string.
ProviderNames ==
    DOMAIN INSURANCE_RATES
    \cup {"", "Acme Mutual", "Unknown Provider", "medstar health", "Default"}

\* The booking records in existence: those stored on patients and those
\* built by the requests.
BookingsProduced ==
    UNION {{bookings[p][i] : i \in 1..Len(bookings[p])} : p \in PatientIds}
    \cup {loc[t].booking_details : t \in {u \in Requests : loc[u].booking_details # NoBooking}}

WellFormedCost(c) ==
    /\ c.insuranceClaim = c.totalCost - c.patientCopay
    /\ c.insuranceClaim >= 0

\* C16: for a provider name that is no key of the rate table, the empty
\* string included, the calculation returns the breakdown of "default"
\* (200, 50, 150), and it returns a breakdown for every name; so does every
\* booking built for a request with such a provider.
C16_UnknownProviderDefault ==
    /\ \A name \in ProviderNames :
           /\ DOMAIN calculate_appointment_cost(name) =
                  {"totalCost", "patientCopay", "insuranceClaim"}
           /\ name \notin DOMAIN INSURANCE_RATES =>
                  /\ calculate_appointment_cost(name) = calculate_appointment_cost("default")
                  /\ calculate_appointment_cost(name) =
                         [totalCost |-> 200, patientCopay |-> 50, insuranceClaim |-> 150]
    /\ \A t \in Requests :
           (/\ loc[t].booking_details # NoBooking
            /\ req[t].params.insuranceprovider \notin DOMAIN INSURANCE_RATES)
           => loc[t].booking_details.costBreakdown = calculate_appointment_cost("default")

\* A booking for a patient insured with a provider the table does not know
\* is stored with the default breakdown.
C16_Witness ==
    \E t \in Requests :
        /\ Committed(t)
        /\ req[t].params.insuranceprovider = "Acme Mutual"
        /\ \E p \in PatientIds : \E i \in 1..Len(bookings[p]) :
               /\ bookings[p][i].bookingId = t
               /\ bookings[p][i].costBreakdown.totalCost = 200

\* C17: in every breakdown the calculation returns, and in the breakdown
\* of every booking built or stored, the insurance claim is the total cost
\* less the patient's co-pay and is not negative.
C17_ClaimIsTotalLessCopay ==
    /\ \A name \in ProviderNames : WellFormedCost(calculate_appointment_cost(name))
    /\ \A b \in BookingsProduced : WellFormedCost(b.costBreakdown)

\* Bookings with the MedStar Health and the default breakdown are stored.
C17_Witness ==
    \E p \in PatientIds : \E i, j \in 1..Len(bookings[p]) :
        /\ bookings[p][i].costBreakdown =
               [totalCost |-> 150, patientCopay |-> 25, insuranceClaim |-> 125]
        /\ bookings[p][j].costBreakdown.insuranceClaim = 150


(***************************************************************************)
(* Vocabulary of the reservation properties.                               *)
(***************************************************************************)
\* The set of the elements of a sequence.
Range(list) == {list[i] : i \in 1..Len(list)}

\* The labels taken off doctor d's initial list for the date.
LabelsRemoved(d, date) ==
    Range(MOCK_DOCTORS[d].availability[date]) \ Range(availability[d][date])

\* The times of the bookings stored on patients for doctor d and the date.
TimesBooked(d, date) ==
    {b.appointmentTime :
        b \in {c \in UNION {Range(bookings[p]) : p \in PatientIds} :
                  c.doctorName = MOCK_DOCTORS[d].name /\ c.appointmentDate = date}}

\* C18: inside the transaction the patient and the doctor are both read
\* before a write is handed to the transaction: every update call comes
\* after both reads.
C18_ReadsBeforeWrites ==
    \A t \in Requests :
        LET ops == hist[t].txnOps
        IN  \A i \in 1..Len(ops) :
                ops[i] \in {"update patient", "update doctor"} =>
                    /\ \E j \in 1..(i - 1) : ops[j] = "get patient"
                    /\ \E j \in 1..(i - 1) : ops[j] = "get doctor"

\* C19: in every state, for every doctor and date, the labels removed from
\* the doctor's initial availability are exactly the times of the bookings
\* stored on patients for that doctor and date.
C19_RemovalAndAppendTogether ==
    \A d \in DoctorIds : \A date \in DOMAIN MOCK_DOCTORS[d].availability :
        LabelsRemoved(d, date) = TimesBooked(d, date)

\* t's booking is in its patient's sequence, once.
BookingStoredOnce(t) ==
    \E p \in PatientIds :
        Cardinality({i \in 1..Len(bookings[p]) : bookings[p][i].bookingId = t}) = 1

\* C20: a patient's booking sequence only grows, by one booking at its end
\* in a step, with the bookings already there left as they are; and the
\* booking of every reservation answered with success is in its patient's
\* sequence, also when reservations for the patient were served together.
C20_BookingsAppendOnly ==
    /\ [][\A p \in PatientIds :
             \/ bookings'[p] = bookings[p]
             \/ /\ Len(bookings'[p]) = Len(bookings[p]) + 1
                /\ SubSeq(bookings'[p], 1, Len(bookings[p])) = bookings[p]]_vars
    /\ [](\A t \in Requests :
             (IsBooking(t) /\ (resp[t].kind = "Success" \/ hist[t].appended # <<>>))
             => BookingStoredOnce(t))

\* Two reservations for one patient, on different slots, served at the same
\* time and both answered with success, with both bookings in the
\* patient's sequence.
C20_Witness ==
    \E t, u \in Requests :
        /\ t # u
        /\ IsBooking(t) /\ IsBooking(u)
        /\ resp[t].kind = "Success" /\ resp[u].kind = "Success"
        /\ hist[t].overlap /\ hist[u].overlap
        /\ loc[t].patient_ref = loc[u].patient_ref
        /\ loc[t].appointment_time # loc[u].appointment_time
        /\ Len(bookings[loc[t].patient_ref]) = 2
        /\ BookingStoredOnce(t) /\ BookingStoredOnce(u)


\* C21: for every booking made, the doctor recorded in it is the doctor the
\* request names and the doctor whose time label was removed: no request
\* takes a slot of a doctor other than the one it names.
C21_DoctorRecordedIsDoctorBooked ==
    \A t \in Requests :
        (IsBooking(t) /\ Committed(t)) =>
            \A r \in hist[t].removed :
                /\ MOCK_DOCTORS[r[1]].name = req[t].params.doctor_name.original
                /\ \A i \in 1..Len(hist[t].appended) :
                       hist[t].appended[i].doctorName = MOCK_DOCTORS[r[1]].name


\* No time label occurs twice in a list.
NoDuplicateLabels ==
    \A d \in DoctorIds : \A date \in DOMAIN availability[d] :
        Cardinality(Range(availability[d][date])) = Len(availability[d][date])

\* Request t was served alone: nothing else was in progress meanwhile and
\* nothing has arrived since.
ServedAlone(t) == ~hist[t].overlap /\ \A u \in Requests : u > t => pc[u] = "idle"

\* C23: a successful reservation of (D, d, t) for patient P, D being the
\* doctor the request names, leaves every list other than D's list for d
\* and every booking sequence other than P's as it found them, takes the
\* one label off D's list for d, and adds one booking to P; and no list
\* ever holds a label twice.
C23_ReservationFrame ==
    /\ NoDuplicateLabels
    /\ \A t \in Requests :
          (IsBooking(t) /\ Done(t) /\ resp[t].kind = "Success" /\ ServedAlone(t)) =>
              LET p == req[t].params
                  before == hist[t].availAtStart
              IN  /\ \A d \in DoctorIds : \A date \in DOMAIN availability[d] :
                         IF d \in MeantDoctors(p) /\ date = loc[t].appointment_date
                         THEN availability[d][date] =
                                  ListRemove(before[d][date], loc[t].appointment_time)
                         ELSE availability[d][date] = before[d][date]
                  /\ \A q \in PatientIds :
                         IF q = p.name.original
                         THEN /\ Len(bookings[q]) = Len(hist[t].bookingsAtStart[q]) + 1
                              /\ SubSeq(bookings[q], 1, Len(bookings[q]) - 1) =
                                     hist[t].bookingsAtStart[q]
                         ELSE bookings[q] = hist[t].bookingsAtStart[q]


\* Why the booking request t, served alone, cannot be made: its patient is
\* not in the store, or else its doctor is not, or else the time is not on
\* the doctor's list for the date ("none": nothing stands in its way).
FailureCause(t) ==
    LET p == req[t].params
    IN  IF p.name.original \notin DOMAIN MOCK_PATIENTS THEN "PatientNotFound"
        ELSE IF MeantDoctors(p) = {} THEN "DoctorNotFound"
        ELSE IF ~MeantSlotOpen(p, hist[t].availAtStart) THEN "SlotUnavailable"
        ELSE "none"

\* C24: a booking that fails because the patient is absent is answered
\* PatientNotFound, because the doctor is absent DoctorNotFound, because
\* the time is not open SlotUnavailable, and none of the three answers is
\* given for another cause, in both store paths (stated for complete
\* requests served alone, whose date and time keys are the store's own
\* labels, with no patient document deleted).
C24_ErrorKindOfCause ==
    \A t \in Requests :
        ( /\ IsBooking(t) /\ Done(t) /\ ServedAlone(t)
          /\ BookFieldsPresent(req[t].params)
          /\ loc[t].appointment_date = MeantDate(req[t].params)
          /\ loc[t].appointment_time = MeantTime(req[t].params)
          /\ \A q \in PatientIds : patientExists[q] )
        => /\ FailureCause(t) # "none" => resp[t].kind = FailureCause(t)
           /\ resp[t].kind \in {"PatientNotFound", "DoctorNotFound", "SlotUnavailable"}
                  => resp[t].kind = FailureCause(t)

=============================================================================
